---- MODULE Spec2Model ----
(***************************************************************************)
(* A model of system_monitor (src/src/main.rs): configuration loading and  *)
(* generation, the threshold classifier, the alert logger, the progress    *)
(* bar and the monitor loop.                                               *)
(*                                                                         *)
(* Percentages (f32 in the source) are fixed-point integers in tenths of a *)
(* percent: 700 is 70.0%.  Byte counts (u64) and lengths (usize) are       *)
(* unsigned words of WordBits bits, so that a subtraction below zero wraps *)
(* or panics as the build decides.                                         *)
(***************************************************************************)
EXTENDS Integers, Sequences, FiniteSets, TLC

VARIABLES
    build,      \* "debug" (overflow checks on) or "release" (wrapping)
    cli,        \* the parsed command line (struct Cli)
    cfgFile,    \* the content of the file at cli.config
    logFiles,   \* path -> [exists, lines]: the alert log files on disk
    config,     \* the Config main holds once load_config has returned
    pc,         \* the position of the single thread
    nDisks,     \* length of the Disks list built at construction
    diskIdx,    \* the disk the for loop of display_system_info is at
    refreshed,  \* sys and disks were refreshed since the last render
    printed,    \* dashboard outputs written to stdout in this cycle
    cycles,     \* completed calls of display_system_info
    sleeps,     \* completed thread::sleep calls
    last,       \* what the last executed step did (see NoStep)
    fn          \* arguments and result of a direct create_progress_bar call

vars == <<build, cli, cfgFile, logFiles, config, pc, nDisks, diskIdx,
          refreshed, printed, cycles, sleeps, last, fn>>

----------------------------------------------------------------------------
(* Bounds of the model *)

MaxCycles == 2
MaxDisks == 2

----------------------------------------------------------------------------
(* Machine words *)

WordBits == 16
WordModulus == 2^WordBits
\* isize::MAX, the largest capacity a String may be given
AllocMax == (WordModulus \div 2) - 1

Builds == {"debug", "release"}

\* a - b on unsigned words: [panic, value]
USub(a, b, bld) ==
    IF a >= b THEN [panic |-> FALSE, value |-> a - b]
    ELSE IF bld = "debug" THEN [panic |-> TRUE, value |-> 0]
    ELSE [panic |-> FALSE, value |-> (a - b) % WordModulus]

\* (used as f64 / total as f64) * 100.0, in tenths of a percent
Ratio(used, total) == (used * 1000) \div total

\* `x as usize` of a float given in tenths: truncates toward zero, saturates
AsUsize(num, den) ==
    IF num <= 0 THEN 0
    ELSE IF num \div den >= WordModulus THEN WordModulus - 1
    ELSE num \div den

----------------------------------------------------------------------------
(* Configuration *)

DefaultLogFile == "system_monitor.log"
Commands == {"monitor", "summary", "generate-config", "none"}
CliLogFiles == {DefaultLogFile, "cli.log"}
Paths == {DefaultLogFile, "cli.log", "alerts.log"}

Pair(w, c) == [warning |-> w, critical |-> c]

MkConfig(logAlerts, logFile, colors, cpu, mem, disk, swap) ==
    [general |-> [refresh_interval |-> 30, log_alerts |-> logAlerts,
                  log_file |-> logFile],
     display |-> [show_progress_bars |-> TRUE, use_colors |-> colors,
                  show_per_core_cpu |-> TRUE, max_processes_to_display |-> 10],
     thresholds |-> [cpu_warning |-> cpu.warning, cpu_critical |-> cpu.critical,
                     memory_warning |-> mem.warning, memory_critical |-> mem.critical,
                     disk_warning |-> disk.warning, disk_critical |-> disk.critical,
                     swap_warning |-> swap.warning, swap_critical |-> swap.critical],
     alerts |-> [enable_desktop_notifications |-> FALSE,
                 enable_email_alerts |-> FALSE,
                 enable_sound_alerts |-> FALSE]]

DefaultConfig ==
    MkConfig(TRUE, DefaultLogFile, TRUE,
             Pair(700, 900), Pair(700, 900), Pair(700, 900), Pair(700, 900))

\* The configurations an operator may have written to the file.
UserConfigs ==
    { DefaultConfig,
      MkConfig(FALSE, DefaultLogFile, TRUE,
               Pair(700, 900), Pair(500, 900), Pair(700, 1000), Pair(0, 0)),
      MkConfig(TRUE, "alerts.log", FALSE,
               Pair(500, 500), Pair(0, 1000), Pair(0, 0), Pair(0, 900)),
      MkConfig(TRUE, "alerts.log", TRUE,
               Pair(900, 700), Pair(700, 700), Pair(1000, 1000), Pair(900, 700)) }

NoConfig == [none |-> TRUE]

\* toml::to_string_pretty: tables in field order, one key = value per line,
\* each value written in the syntax of its type.
TomlValue(kind, v) == [kind |-> kind, text |-> v]

ToToml(c) ==
    << [table |-> "general",
        keys |-> << <<"refresh_interval", TomlValue("integer", c.general.refresh_interval)>>,
                    <<"log_alerts", TomlValue("boolean", c.general.log_alerts)>>,
                    <<"log_file", TomlValue("string", c.general.log_file)>> >>],
       [table |-> "display",
        keys |-> << <<"show_progress_bars", TomlValue("boolean", c.display.show_progress_bars)>>,
                    <<"use_colors", TomlValue("boolean", c.display.use_colors)>>,
                    <<"show_per_core_cpu", TomlValue("boolean", c.display.show_per_core_cpu)>>,
                    <<"max_processes_to_display",
                      TomlValue("integer", c.display.max_processes_to_display)>> >>],
       [table |-> "thresholds",
        keys |-> << <<"cpu_warning", TomlValue("float", c.thresholds.cpu_warning)>>,
                    <<"cpu_critical", TomlValue("float", c.thresholds.cpu_critical)>>,
                    <<"memory_warning", TomlValue("float", c.thresholds.memory_warning)>>,
                    <<"memory_critical", TomlValue("float", c.thresholds.memory_critical)>>,
                    <<"disk_warning", TomlValue("float", c.thresholds.disk_warning)>>,
                    <<"disk_critical", TomlValue("float", c.thresholds.disk_critical)>>,
                    <<"swap_warning", TomlValue("float", c.thresholds.swap_warning)>>,
                    <<"swap_critical", TomlValue("float", c.thresholds.swap_critical)>> >>],
       [table |-> "alerts",
        keys |-> << <<"enable_desktop_notifications",
                      TomlValue("boolean", c.alerts.enable_desktop_notifications)>>,
                    <<"enable_email_alerts", TomlValue("boolean", c.alerts.enable_email_alerts)>>,
                    <<"enable_sound_alerts", TomlValue("boolean", c.alerts.enable_sound_alerts)>> >>] >>

Absent == [state |-> "absent"]
Garbage == [state |-> "malformed"]
TextFile(doc) == [state |-> "text", doc |-> doc]

\* The value of `key` in table `t` of a document, or a missing marker.
Missing == [kind |-> "missing", text |-> 0]

TomlGet(doc, t, key) ==
    LET tabs == {i \in 1..Len(doc) : doc[i].table = t}
    IN IF tabs = {} THEN Missing
       ELSE LET tab == doc[CHOOSE i \in tabs : TRUE].keys
                hits == {j \in 1..Len(tab) : tab[j][1] = key}
            IN IF hits = {} THEN Missing ELSE tab[CHOOSE j \in hits : TRUE][2]

\* toml::from_str::<Config>: every field must be present with its type.
TomlFields ==
    { <<"general", "refresh_interval", "integer">>,
      <<"general", "log_alerts", "boolean">>,
      <<"general", "log_file", "string">>,
      <<"display", "show_progress_bars", "boolean">>,
      <<"display", "use_colors", "boolean">>,
      <<"display", "show_per_core_cpu", "boolean">>,
      <<"display", "max_processes_to_display", "integer">>,
      <<"thresholds", "cpu_warning", "float">>,
      <<"thresholds", "cpu_critical", "float">>,
      <<"thresholds", "memory_warning", "float">>,
      <<"thresholds", "memory_critical", "float">>,
      <<"thresholds", "disk_warning", "float">>,
      <<"thresholds", "disk_critical", "float">>,
      <<"thresholds", "swap_warning", "float">>,
      <<"thresholds", "swap_critical", "float">>,
      <<"alerts", "enable_desktop_notifications", "boolean">>,
      <<"alerts", "enable_email_alerts", "boolean">>,
      <<"alerts", "enable_sound_alerts", "boolean">> }

TomlOk(doc) ==
    \A f \in TomlFields : TomlGet(doc, f[1], f[2]).kind = f[3]

FromToml(doc) ==
    LET g(t, k) == TomlGet(doc, t, k).text
    IN [general |-> [refresh_interval |-> g("general", "refresh_interval"),
                     log_alerts |-> g("general", "log_alerts"),
                     log_file |-> g("general", "log_file")],
        display |-> [show_progress_bars |-> g("display", "show_progress_bars"),
                     use_colors |-> g("display", "use_colors"),
                     show_per_core_cpu |-> g("display", "show_per_core_cpu"),
                     max_processes_to_display |-> g("display", "max_processes_to_display")],
        thresholds |-> [cpu_warning |-> g("thresholds", "cpu_warning"),
                        cpu_critical |-> g("thresholds", "cpu_critical"),
                        memory_warning |-> g("thresholds", "memory_warning"),
                        memory_critical |-> g("thresholds", "memory_critical"),
                        disk_warning |-> g("thresholds", "disk_warning"),
                        disk_critical |-> g("thresholds", "disk_critical"),
                        swap_warning |-> g("thresholds", "swap_warning"),
                        swap_critical |-> g("thresholds", "swap_critical")],
        alerts |-> [enable_desktop_notifications |-> g("alerts", "enable_desktop_notifications"),
                    enable_email_alerts |-> g("alerts", "enable_email_alerts"),
                    enable_sound_alerts |-> g("alerts", "enable_sound_alerts")]]

\* load_config: [panic, config]
LoadConfigResult(file) ==
    IF file.state = "absent" THEN [panic |-> FALSE, config |-> DefaultConfig]
    ELSE IF file.state = "text" /\ TomlOk(file.doc)
         THEN [panic |-> FALSE, config |-> FromToml(file.doc)]
    ELSE [panic |-> TRUE, config |-> NoConfig]

\* generate_config: the file it leaves at the path
GenerateConfigFile == TextFile(ToToml(DefaultConfig))

ConfigFiles == {Absent, Garbage} \cup {TextFile(ToToml(c)) : c \in UserConfigs}

----------------------------------------------------------------------------
(* Threshold classifier, colours and the progress bar *)

\* get_usage_color
GetUsageColor(usage, warning_threshold, critical_threshold, use_colors) ==
    IF ~use_colors THEN "White"
    ELSE IF usage >= critical_threshold THEN "Red"
    ELSE IF usage >= warning_threshold THEN "Yellow"
    ELSE "Green"

BarWidth == 20

NoBar == [kind |-> "none", filled |-> 0, empty |-> 0, color |-> "none", usage |-> 0]

\* create_progress_bar: the plain text, the bar, or a panic
CreateProgressBar(usage, warning, critical, use_colors, bld) ==
    IF ~use_colors
    THEN [NoBar EXCEPT !.kind = "plain", !.usage = usage]
    ELSE LET filled_length == AsUsize(usage * BarWidth, 1000)
             sub == USub(BarWidth, filled_length, bld)
             empty_length == sub.value
         IN IF sub.panic \/ filled_length > AllocMax \/ empty_length > AllocMax
            THEN [NoBar EXCEPT !.kind = "panic", !.usage = usage]
            ELSE [kind |-> "bar", filled |-> filled_length, empty |-> empty_length,
                  color |-> GetUsageColor(usage, warning, critical, use_colors),
                  usage |-> usage]

----------------------------------------------------------------------------
(* Alert logger *)

NoFile == [exists |-> FALSE, lines |-> 0]

\* What opening and writing the log file may do.
IoOutcomes == {"ok", "open_failed", "write_failed"}

\* OpenOptions::new().append(true).create(true).open(path)
\*     .and_then(|f| f.write_all(entry))
AppendLine(files, path, io) ==
    IF io = "ok"
    THEN [files EXCEPT ![path] = [exists |-> TRUE, lines |-> @.lines + 1]]
    ELSE IF io = "write_failed"
    THEN [files EXCEPT ![path] = [@ EXCEPT !.exists = TRUE]]
    ELSE files

\* log_alert with warn! inside the `if config.general.log_alerts` block
LogAlertWarnGated(files, cfg, io) ==
    IF cfg.general.log_alerts
    THEN [files |-> AppendLine(files, cfg.general.log_file, io),
          path |-> cfg.general.log_file,
          logRes |-> io,
          reported |-> (io # "ok"),
          warned |-> 1]
    ELSE [files |-> files, path |-> "none", logRes |-> "skipped",
          reported |-> FALSE, warned |-> 0]

\* log_alert returning from the Err branch before warn!
LogAlertReturnOnError(files, cfg, io) ==
    IF cfg.general.log_alerts
    THEN [files |-> AppendLine(files, cfg.general.log_file, io),
          path |-> cfg.general.log_file,
          logRes |-> io,
          reported |-> (io # "ok"),
          warned |-> IF io = "ok" THEN 1 ELSE 0]
    ELSE [files |-> files, path |-> "none", logRes |-> "skipped",
          reported |-> FALSE, warned |-> 1]

\* log_alert: the files afterwards, the target path, the outcome of the
\* append ("skipped" when log_alerts is off), whether the failure was
\* printed with eprintln!, and the number of warn! records emitted.
LogAlert(files, cfg, io) ==
    IF cfg.general.log_alerts
    THEN [files |-> AppendLine(files, cfg.general.log_file, io),
          path |-> cfg.general.log_file,
          logRes |-> io,
          reported |-> (io # "ok"),
          warned |-> 1]
    ELSE [files |-> files, path |-> "none", logRes |-> "skipped",
          reported |-> FALSE, warned |-> 1]

NoAlert(files) ==
    [files |-> files, path |-> "none", logRes |-> "none", reported |-> FALSE,
     warned |-> 0, alert |-> "none"]

\* check_and_alert with strict comparisons (a threshold itself does not count)
CheckAndAlertStrict(usage, warning, critical, cfg, files, io) ==
    IF usage > critical
    THEN [alert |-> "critical"] @@ LogAlert(files, cfg, io)
    ELSE IF usage > warning
    THEN [alert |-> "high"] @@ LogAlert(files, cfg, io)
    ELSE NoAlert(files)

\* check_and_alert
CheckAndAlert(usage, warning, critical, cfg, files, io) ==
    IF usage >= critical
    THEN [alert |-> "critical"] @@ LogAlert(files, cfg, io)
    ELSE IF usage >= warning
    THEN [alert |-> "high"] @@ LogAlert(files, cfg, io)
    ELSE NoAlert(files)

----------------------------------------------------------------------------
(* Readings of the metric provider (sysinfo), in the units above *)

CpuValues == {0, 499, 500, 699, 700, 899, 900, 1000}
\* cpu_usage of one core
CoreValues == {0, 1000}
\* <<total_memory, used_memory>>
MemValues == {<<1000, 0>>, <<1000, 699>>, <<1000, 700>>, <<1000, 900>>}
\* <<total_swap, used_swap>>
SwapValues == {<<0, 0>>, <<1000, 0>>, <<1000, 700>>, <<1000, 900>>}
\* <<total_space, available_space>>
DiskValues == {<<0, 0>>, <<0, 1>>, <<1000, 301>>, <<1000, 300>>, <<1000, 0>>}
\* cpu_usage of the top process (may exceed 100% on several cores)
ProcValues == {499, 500, 800, 2000}

----------------------------------------------------------------------------
(* The record of one step *)

NoStep ==
    [section |-> "none",      \* the part of the program that ran
     name |-> "none",         \* the metric name passed to check_and_alert
     total |-> 0,             \* the capacity read (swap, disk)
     usage |-> 0,             \* the usage passed to check_and_alert and the bar
     checked |-> FALSE,       \* check_and_alert was called
     alert |-> "none",        \* "none", "high" or "critical"
     warned |-> 0,            \* warn! records emitted
     logRes |-> "none",       \* outcome of the append in log_alert
     path |-> "none",         \* the file log_alert opened
     appended |-> 0,          \* lines added to the log files
     reported |-> FALSE,      \* eprintln! of a log failure
     printedBefore |-> 0,     \* dashboard outputs of the cycle before the step
     bar |-> NoBar,           \* the bar printed for the metric
     text |-> "none",         \* literal text printed instead of a bar
     color |-> "none",        \* colour of the process row
     panic |-> FALSE]

\* The number of lines in all the log files together.
TotalLines(files) ==
    files[DefaultLogFile].lines + files["cli.log"].lines + files["alerts.log"].lines

\* A metric's check_and_alert followed by the println! of its bar.
MetricStep(section, name, total, usage, warning, critical, r) ==
    LET b == CreateProgressBar(usage, warning, critical,
                               config.display.use_colors, build)
    IN [NoStep EXCEPT !.section = section, !.name = name, !.total = total,
                      !.usage = usage, !.checked = TRUE, !.alert = r.alert,
                      !.warned = r.warned, !.logRes = r.logRes, !.path = r.path,
                      !.appended = TotalLines(r.files) - TotalLines(logFiles),
                      !.reported = r.reported, !.printedBefore = printed,
                      !.bar = b, !.panic = (b.kind = "panic")]

----------------------------------------------------------------------------
(* main *)

NoCall ==
    [usage |-> 0, warning |-> 0, critical |-> 0, use_colors |-> FALSE,
     called |-> FALSE, res |-> NoBar]

OnceMode(c) == c.command = "summary" \/ (c.command \in {"monitor", "none"} /\ c.once)

\* a loop that does not refresh: the readings stay as they were
RefreshSkipped == refreshed

\* sys.refresh_all(); disks.refresh(): the readings are fresh afterwards
RefreshAll == TRUE

Init ==
    /\ build \in Builds
    /\ cli \in [command : Commands, once : BOOLEAN, log_file : CliLogFiles]
    /\ cfgFile \in ConfigFiles
    /\ logFiles = [p \in Paths |-> NoFile]
    /\ config = NoConfig
    /\ pc = "start"
    /\ nDisks = 0
    /\ diskIdx = 1
    /\ refreshed = FALSE
    /\ printed = 0
    /\ cycles = 0
    /\ sleeps = 0
    /\ last = NoStep
    /\ fn = NoCall

\* let config = load_config(&cli.config);
LoadConfig ==
    /\ pc = "start"
    /\ LET r == LoadConfigResult(cfgFile)
       IN /\ config' = r.config
          /\ pc' = IF r.panic THEN "panicked" ELSE "dispatch"
          /\ last' = [NoStep EXCEPT !.section = "load_config", !.panic = r.panic]
    /\ UNCHANGED <<build, cli, cfgFile, logFiles, nDisks, diskIdx, refreshed,
                   printed, cycles, sleeps, fn>>

\* Some(Commands::GenerateConfig) => generate_config(&cli.config)
GenerateConfig ==
    /\ pc = "dispatch"
    /\ cli.command = "generate-config"
    /\ cfgFile' = GenerateConfigFile
    /\ pc' = "done"
    /\ last' = [NoStep EXCEPT !.section = "generate_config"]
    /\ UNCHANGED <<build, cli, logFiles, config, nDisks, diskIdx, refreshed,
                   printed, cycles, sleeps, fn>>

\* Some(Commands::Summary): construct, refresh, then display_system_info
Summary ==
    /\ pc = "dispatch"
    /\ cli.command = "summary"
    /\ \E n \in 0..MaxDisks : nDisks' = n
    /\ refreshed' = RefreshAll
    /\ printed' = 0
    /\ pc' = "display"
    /\ last' = [NoStep EXCEPT !.section = "refresh"]
    /\ UNCHANGED <<build, cli, cfgFile, logFiles, config, diskIdx,
                   cycles, sleeps, fn>>

\* run_monitor(&config, cli.once): System::new_all, Disks::new_with_refreshed_list
RunMonitor ==
    /\ pc = "dispatch"
    /\ cli.command \in {"monitor", "none"}
    /\ \E n \in 0..MaxDisks : nDisks' = n
    /\ pc' = "loop"
    /\ last' = [NoStep EXCEPT !.section = "run_monitor"]
    /\ UNCHANGED <<build, cli, cfgFile, logFiles, config, diskIdx, refreshed,
                   printed, cycles, sleeps, fn>>

\* loop { sys.refresh_all(); disks.refresh(); ...
Refresh ==
    /\ pc = "loop"
    /\ refreshed' = RefreshAll
    /\ printed' = 0
    /\ pc' = "display"
    /\ last' = [NoStep EXCEPT !.section = "refresh"]
    /\ UNCHANGED <<build, cli, cfgFile, logFiles, config, nDisks, diskIdx,
                   cycles, sleeps, fn>>

----------------------------------------------------------------------------
(* display_system_info *)

\* clear the screen and print the banner
Banner ==
    /\ pc = "display"
    /\ printed' = printed + 1
    /\ pc' = "cpu"
    /\ last' = [NoStep EXCEPT !.section = "banner", !.printedBefore = printed]
    /\ UNCHANGED <<build, cli, cfgFile, logFiles, config, nDisks, diskIdx,
                   refreshed, cycles, sleeps, fn>>

\* CPU: check_and_alert, the overall bar, the per-core bars
CpuSection ==
    /\ pc = "cpu"
    /\ \E cpu_usage \in CpuValues, core_usage \in CoreValues, io \in IoOutcomes :
         LET w == config.thresholds.cpu_warning
             c == config.thresholds.cpu_critical
             r == CheckAndAlert(cpu_usage, w, c, config, logFiles, io)
             step == MetricStep("cpu", "CPU", 0, cpu_usage, w, c, r)
             core == IF config.display.show_per_core_cpu
                     THEN CreateProgressBar(core_usage, w, c,
                                            config.display.use_colors, build)
                     ELSE NoBar
             crash == step.panic \/ core.kind = "panic"
         IN /\ logFiles' = r.files
            /\ last' = [step EXCEPT !.panic = crash]
            /\ pc' = IF crash THEN "panicked" ELSE "memory"
    /\ printed' = printed + 1
    /\ UNCHANGED <<build, cli, cfgFile, config, nDisks, diskIdx, refreshed,
                   cycles, sleeps, fn>>

\* Memory: usage from used and total, check_and_alert, the bar, the sizes
MemorySection ==
    /\ pc = "memory"
    /\ \E m \in MemValues, io \in IoOutcomes :
         LET total_memory == m[1]
             used_memory == m[2]
             memory_usage == Ratio(used_memory, total_memory)
             w == config.thresholds.memory_warning
             c == config.thresholds.memory_critical
             r == CheckAndAlert(memory_usage, w, c, config, logFiles, io)
             step == MetricStep("memory", "Memory", total_memory, memory_usage, w, c, r)
         IN /\ logFiles' = r.files
            /\ last' = step
            /\ pc' = IF step.panic THEN "panicked" ELSE "swap"
    /\ printed' = printed + 1
    /\ UNCHANGED <<build, cli, cfgFile, config, nDisks, diskIdx, refreshed,
                   cycles, sleeps, fn>>

\* the swap guard written as total_swap >= 0
SwapPresentAlways(total_swap) == total_swap >= 0

\* if total_swap > 0
SwapPresent(total_swap) == total_swap > 0

\* Swap: checked and drawn only when there is swap; then the disk header
SwapSection ==
    /\ pc = "swap"
    /\ \E s \in SwapValues, io \in IoOutcomes :
         LET total_swap == s[1]
             used_swap == s[2]
             swap_usage == IF total_swap > 0 THEN Ratio(used_swap, total_swap) ELSE 0
             w == config.thresholds.swap_warning
             c == config.thresholds.swap_critical
             r == CheckAndAlert(swap_usage, w, c, config, logFiles, io)
             step == MetricStep("swap", "Swap", total_swap, swap_usage, w, c, r)
         IN IF SwapPresent(total_swap)
            THEN /\ logFiles' = r.files
                 /\ last' = step
                 /\ pc' = IF step.panic THEN "panicked" ELSE "disks"
            ELSE /\ logFiles' = logFiles
                 /\ last' = [NoStep EXCEPT !.section = "swap", !.name = "Swap",
                                           !.total = total_swap,
                                           !.printedBefore = printed,
                                           !.text = "Not Available"]
                 /\ pc' = "disks"
    /\ printed' = printed + 1
    /\ diskIdx' = 1
    /\ UNCHANGED <<build, cli, cfgFile, config, nDisks, refreshed,
                   cycles, sleeps, fn>>

\* for disk in disks: used = total - available, usage, check_and_alert, the bar
DiskSection ==
    /\ pc = "disks"
    /\ diskIdx <= nDisks
    /\ \E d \in DiskValues, io \in IoOutcomes :
         LET total_space == d[1]
             available_space == d[2]
             used_space == USub(total_space, available_space, build)
             disk_usage == IF total_space > 0
                           THEN Ratio(used_space.value, total_space)
                           ELSE 0
             w == config.thresholds.disk_warning
             c == config.thresholds.disk_critical
             r == CheckAndAlert(disk_usage, w, c, config, logFiles, io)
             step == MetricStep("disk", <<"Disk", diskIdx>>, total_space,
                                disk_usage, w, c, r)
         IN IF used_space.panic
            THEN /\ logFiles' = logFiles
                 /\ last' = [NoStep EXCEPT !.section = "disk",
                                           !.name = <<"Disk", diskIdx>>,
                                           !.total = total_space,
                                           !.printedBefore = printed,
                                           !.panic = TRUE]
                 /\ pc' = "panicked"
                 /\ UNCHANGED <<printed, diskIdx>>
            ELSE /\ logFiles' = r.files
                 /\ last' = step
                 /\ pc' = IF step.panic THEN "panicked" ELSE "disks"
                 /\ printed' = printed + 1
                 /\ diskIdx' = diskIdx + 1
    /\ UNCHANGED <<build, cli, cfgFile, config, nDisks, refreshed,
                   cycles, sleeps, fn>>

\* Top processes (rows coloured against 50/80), system information, footer;
\* display_system_info returns, and the summary command with it.
ProcessesAndSystem ==
    /\ pc = "disks"
    /\ diskIdx > nDisks
    /\ \E p \in ProcValues :
         last' = [NoStep EXCEPT !.section = "tail", !.usage = p,
                                !.printedBefore = printed,
                                !.color = GetUsageColor(p, 500, 800,
                                                        config.display.use_colors)]
    /\ printed' = printed + 1
    /\ cycles' = cycles + 1
    /\ refreshed' = FALSE
    /\ pc' = IF cli.command = "summary" THEN "done" ELSE "displayed"
    /\ UNCHANGED <<build, cli, cfgFile, logFiles, config, nDisks, diskIdx,
                   sleeps, fn>>

----------------------------------------------------------------------------
(* run_monitor, after display_system_info *)

\* if once { break; }
OnceBreak ==
    /\ pc = "displayed"
    /\ cli.once
    /\ pc' = "done"
    /\ last' = [NoStep EXCEPT !.section = "break"]
    /\ UNCHANGED <<build, cli, cfgFile, logFiles, config, nDisks, diskIdx,
                   refreshed, printed, cycles, sleeps, fn>>

\* thread::sleep(refresh_interval), then the next iteration
Sleep ==
    /\ pc = "displayed"
    /\ ~cli.once
    /\ cycles < MaxCycles
    /\ sleeps' = sleeps + 1
    /\ pc' = "loop"
    /\ last' = [NoStep EXCEPT !.section = "sleep"]
    /\ UNCHANGED <<build, cli, cfgFile, logFiles, config, nDisks, diskIdx,
                   refreshed, printed, cycles, fn>>

Next ==
    \/ LoadConfig
    \/ GenerateConfig
    \/ Summary
    \/ RunMonitor
    \/ Refresh
    \/ Banner
    \/ CpuSection
    \/ MemorySection
    \/ SwapSection
    \/ DiskSection
    \/ ProcessesAndSystem
    \/ OnceBreak
    \/ Sleep

Spec == Init /\ [][Next]_vars

----------------------------------------------------------------------------
(* create_progress_bar called directly on chosen arguments *)

BarUsages == {-50, -1, 0, 49, 50, 499, 500, 549, 999, 1000, 1049, 1050, 1100, 2000}
BarThresholds == {Pair(700, 900), Pair(0, 0), Pair(500, 1000)}

InitBar ==
    /\ build \in Builds
    /\ cli = [command |-> "none", once |-> TRUE, log_file |-> DefaultLogFile]
    /\ cfgFile = Absent
    /\ logFiles = [p \in Paths |-> NoFile]
    /\ config = NoConfig
    /\ pc = "bar_call"
    /\ nDisks = 0
    /\ diskIdx = 1
    /\ refreshed = FALSE
    /\ printed = 0
    /\ cycles = 0
    /\ sleeps = 0
    /\ last = NoStep
    /\ \E u \in BarUsages, t \in BarThresholds, col \in BOOLEAN :
         fn = [NoCall EXCEPT !.usage = u, !.warning = t.warning,
                             !.critical = t.critical, !.use_colors = col]

CallBar ==
    /\ pc = "bar_call"
    /\ fn' = [fn EXCEPT !.called = TRUE,
                        !.res = CreateProgressBar(fn.usage, fn.warning, fn.critical,
                                                  fn.use_colors, build)]
    /\ pc' = IF fn'.res.kind = "panic" THEN "panicked" ELSE "bar_returned"
    /\ UNCHANGED <<build, cli, cfgFile, logFiles, config, nDisks, diskIdx,
                   refreshed, printed, cycles, sleeps, last>>

NextBar == CallBar

SpecBar == InitBar /\ [][NextBar]_vars

----------------------------------------------------------------------------
(* Properties *)

Terminated == pc \in {"done", "panicked"}

\* The threshold pair the configuration gives for the metric of a section.
ConfiguredPair(section) ==
    CASE section = "cpu" ->
           Pair(config.thresholds.cpu_warning, config.thresholds.cpu_critical)
      [] section = "memory" ->
           Pair(config.thresholds.memory_warning, config.thresholds.memory_critical)
      [] section = "swap" ->
           Pair(config.thresholds.swap_warning, config.thresholds.swap_critical)
      [] section = "disk" ->
           Pair(config.thresholds.disk_warning, config.thresholds.disk_critical)

SanePair(p) == 0 <= p.warning /\ p.warning <= p.critical /\ p.critical <= 1000

\* C1: for every metric checked in a cycle, with 0 <= warning <= critical <= 100
\* taken from the metric's own configured pair: a critical alert is emitted iff
\* value >= critical, a high alert iff warning <= value < critical, no alert
\* iff value < warning; a warning record is emitted exactly when there is an
\* alert; and the colour of the bar drawn for the same value is Red, Yellow or
\* Green for the same three cases.
C1_Classification ==
    (last.checked /\ SanePair(ConfiguredPair(last.section))) =>
        LET p == ConfiguredPair(last.section)
            v == last.usage
        IN /\ (last.alert = "critical") <=> (v >= p.critical)
           /\ (last.alert = "high") <=> (p.warning <= v /\ v < p.critical)
           /\ (last.alert = "none") <=> (v < p.warning)
           /\ (last.warned = 1) <=> (last.alert # "none")
           /\ last.bar.kind = "bar" =>
                /\ last.bar.usage = v
                /\ (last.bar.color = "Red") <=> (last.alert = "critical")
                /\ (last.bar.color = "Yellow") <=> (last.alert = "high")
                /\ (last.bar.color = "Green") <=> (last.alert = "none")

\* A value exactly at the warning threshold of a proper pair is a high alert
\* drawn in yellow.
C1_Witness ==
    /\ last.checked
    /\ SanePair(ConfiguredPair(last.section))
    /\ ConfiguredPair(last.section).warning < ConfiguredPair(last.section).critical
    /\ last.usage = ConfiguredPair(last.section).warning
    /\ last.alert = "high"
    /\ last.bar.color = "Yellow"

\* C2: once the configuration is loaded, in once-mode the program ends only
\* after exactly one cycle and without sleeping; in continuous mode it never
\* ends, and it has slept once between every two consecutive cycles.
C2_OnceAndContinuous ==
    (config # NoConfig /\ cli.command # "generate-config") =>
        IF OnceMode(cli)
        THEN /\ sleeps = 0
             /\ cycles <= 1
             /\ Terminated => (pc = "done" /\ cycles = 1)
        ELSE /\ ~Terminated
             /\ sleeps = IF pc = "displayed" THEN cycles - 1 ELSE cycles

DisplayPcs == {"display", "cpu", "memory", "swap", "disks"}

C4_NoSwapNoAlert ==
    (last.section = "swap" /\ last.total = 0) =>
        /\ ~last.checked
        /\ last.alert = "none"
        /\ last.warned = 0
        /\ last.logRes = "none"
        /\ last.appended = 0
        /\ last.text = "Not Available"
        /\ last.bar.kind = "none"

\* No swap, with both swap thresholds 0.
C4_Witness ==
    /\ last.section = "swap"
    /\ last.total = 0
    /\ config.thresholds.swap_warning = 0
    /\ config.thresholds.swap_critical = 0
    /\ last.text = "Not Available"

LogUntouched == \A p \in Paths : logFiles[p] = NoFile

\* C5 as stated: every alert emits one warning record, a line is appended iff
\* log_alerts is true, and with log_alerts false no log file is ever created
\* or modified.
C5_LoggedIffEnabled ==
    /\ last.alert # "none" =>
         /\ last.warned = 1
         /\ (last.appended = 1) <=> config.general.log_alerts
    /\ (config # NoConfig /\ ~config.general.log_alerts) => LogUntouched

\* C5 amended: every alert emits one warning record, a line is appended iff
\* log_alerts is true and the open and the write succeed, and with log_alerts
\* false no log file is ever created or modified.
C5_LoggedIffEnabledAndWritable ==
    /\ last.alert # "none" =>
         /\ last.warned = 1
         /\ last.appended \in {0, 1}
         /\ (last.appended = 1) <=> (config.general.log_alerts /\ last.logRes = "ok")
    /\ last.alert = "none" => (last.warned = 0 /\ last.appended = 0)
    /\ (config # NoConfig /\ ~config.general.log_alerts) => LogUntouched

\* An alert of the second cycle with log_alerts off: warned, nothing on disk.
C5_Witness ==
    /\ cycles = 1
    /\ last.alert # "none"
    /\ ~config.general.log_alerts
    /\ last.warned = 1
    /\ LogUntouched

\* The position after a metric's section.
After(section) ==
    CASE section = "cpu" -> "memory"
      [] section = "memory" -> "swap"
      [] section = "swap" -> "disks"
      [] section = "disk" -> "disks"

C7_ZeroDisk ==
    (last.section = "disk" /\ last.total = 0) =>
        /\ ~last.panic
        /\ last.usage = 0
        /\ last.bar.kind \in {"bar", "plain"}
        /\ last.bar.usage = 0
        /\ last.bar.filled = 0
        /\ last.alert = "none"

\* C8: with colour enabled the bar has 20 cells, floor(value/100 * 20) of
\* them filled for a value in [0, 100]; for any value the call returns and
\* the filled and the empty count are within 0..20.
C8_Bar ==
    (fn.called /\ fn.use_colors) =>
        /\ fn.res.kind = "bar"
        /\ fn.res.filled \in 0..BarWidth
        /\ fn.res.empty \in 0..BarWidth
        /\ fn.res.filled + fn.res.empty = BarWidth
        /\ (0 <= fn.usage /\ fn.usage <= 1000) =>
               fn.res.filled = (fn.usage * BarWidth) \div 1000

\* C9: when a log file is named on the command line, alert lines go to that
\* path and to no other.
C9_CliLogFile ==
    cli.log_file # DefaultLogFile =>
        \A p \in Paths \ {cli.log_file} : logFiles[p].lines = 0

\* C10: generate-config ends with the default configuration at the path,
\* whatever was there, the file loads back to the default configuration, and
\* no cycle ran.
C10_GenerateConfig ==
    (cli.command = "generate-config" /\ Terminated) =>
        /\ pc = "done"
        /\ cfgFile = TextFile(ToToml(DefaultConfig))
        /\ LoadConfigResult(cfgFile) = [panic |-> FALSE, config |-> DefaultConfig]
        /\ cycles = 0

====
